---- MODULE Spec2Model ----
(***************************************************************************)
(* Legio-Parser: the matching-result algebra of src/src/result.rs and the  *)
(* matchers of src/src/traits/*.rs.                                        *)
(*                                                                         *)
(* A slice &[E] is a sequence over SliceElem.  A &str is the sequence of   *)
(* its UTF-8 bytes: byte 1 is a one-byte character, bytes <<3, 4>> are one *)
(* two-byte character (3 its leading byte, 4 its continuation byte).       *)
(* Option<T> is a sequence of length at most one: None is <<>>, Some(x) is *)
(* <<x>>.  A caller's predicate is the set of elements it accepts; a       *)
(* caller's FnOnce callback is the value it would return if invoked.       *)
(***************************************************************************)
EXTENDS Integers, Sequences, FiniteSets, TLC

\* ------------------------------------------------------------------ bounds
MaxLen == 3
MaxPat == 2
MaxCount == 3

MaxPaths == 3

MaxMatches == 2

\* ------------------------------------------------------------- sequences
Min(a, b) == IF a <= b THEN a ELSE b

\* &self[..n]
Take(s, n) == SubSeq(s, 1, n)

\* &self[n..]
Drop(s, n) == SubSeq(s, n + 1, Len(s))

SeqsUpTo(S, n) == UNION {[1..k -> S] : k \in 0..n}

SliceElem == {1, 2}

\* the two-byte character: its leading byte, then its continuation byte
TwoByteChar == <<3, 4>>

LeadByte == TwoByteChar[1]

ContByte == TwoByteChar[2]

\* b is the first byte of a character
IsLead(b) == b # ContByte

\* the byte sequences that are well-formed strings
IsStr(s) ==
    \A i \in 1..Len(s) :
        /\ (s[i] = LeadByte => i < Len(s) /\ s[i + 1] = ContByte)
        /\ (s[i] = ContByte => i > 1 /\ s[i - 1] = LeadByte)

Strs(n) == {s \in SeqsUpTo({1, LeadByte, ContByte}, n) : IsStr(s)}

\* the characters of a string, named by their first byte
StrChar == {1, LeadByte}

\* str::is_char_boundary: what &self[..i] and &self[i..] require of i
is_char_boundary(s, i) ==
    \/ i = 0
    \/ i = Len(s)
    \/ (i < Len(s) /\ IsLead(s[i + 1]))

\* char::len_utf8 of the character whose first byte is b
len_utf8(b) == IF b = LeadByte THEN 2 ELSE 1

Kinds == {"slice", "str"}

Inputs(kind) == IF kind = "slice" THEN SeqsUpTo(SliceElem, MaxLen) ELSE Strs(MaxLen)

Patterns(kind) == IF kind = "slice" THEN SeqsUpTo(SliceElem, MaxPat) ELSE Strs(MaxPat)

Predicates(kind) == IF kind = "slice" THEN SUBSET SliceElem ELSE SUBSET StrChar

Counts == 0..MaxCount

\* counts of a signed type N (i8 .. isize)
SignedCounts == (0 - MaxCount)..MaxCount

\* ---------------------------------------------------------------- Option
None == <<>>

Some(x) == <<x>>

\* ----------------------------------------------------------------- Match
Match_new(matched, rest) == [ty |-> "Match", matched |-> matched, rest |-> Some(rest)]

Match_failed == [ty |-> "Match", matched |-> None, rest |-> None]

is_failed(self) == self.rest = None

\* IntoMatch::into_match
into_match(data) == Match_new(None, data)

\* what a call returns: the result, the indices at which the caller's
\* predicate was invoked (in order), whether the call panicked
Ret(m, log) == [m |-> m, log |-> log, calls |-> 0, panicked |-> FALSE]

Panic == [m |-> Match_failed, log |-> <<>>, calls |-> 0, panicked |-> TRUE]

\* what a combinator returns: the result and how many times it invoked the
\* callback it was given
Did(m, calls) == [m |-> m, log |-> <<>>, calls |-> calls, panicked |-> FALSE]

\* ---------------------------------------------------------- match_static
slice_match_static_keep_rest(self, pattern) ==
    IF pattern = <<>>
    THEN Ret(Match_new(Some(Take(self, 0)), self), <<>>)
    ELSE LET len == Min(Len(self), Len(pattern))
         IN  IF Take(self, len) = pattern
             THEN Ret(Match_new(Some(Take(self, len)), self), <<>>)
             ELSE Ret(Match_failed, <<>>)

slice_match_static_truncating(self, pattern) ==
    IF pattern = <<>>
    THEN Ret(Match_new(Some(Take(self, 0)), self), <<>>)
    ELSE LET len == Min(Len(self), Len(pattern))
         IN  IF Take(self, len) = Take(pattern, len)
             THEN Ret(Match_new(Some(Take(self, len)), Drop(self, len)), <<>>)
             ELSE Ret(Match_failed, <<>>)

slice_match_static(self, pattern) ==
    IF pattern = <<>>
    THEN Ret(Match_new(Some(Take(self, 0)), self), <<>>)
    ELSE LET len == Min(Len(self), Len(pattern))
         IN  IF Take(self, len) = pattern
             THEN Ret(Match_new(Some(Take(self, len)), Drop(self, len)), <<>>)
             ELSE Ret(Match_failed, <<>>)

str_match_static(self, pattern) ==
    LET len == Min(Len(self), Len(pattern))
    IN  IF ~is_char_boundary(self, len)
        THEN Panic
        ELSE IF Take(self, len) = pattern
             THEN Ret(Match_new(Some(Take(self, len)), Drop(self, len)), <<>>)
             ELSE Ret(Match_failed, <<>>)

match_static(kind, self, pattern) ==
    IF kind = "slice" THEN slice_match_static(self, pattern)
    ELSE str_match_static(self, pattern)

\* ------------------------------------------------------------ match_with
\* The closure handed to match_with is either the caller's predicate itself
\* (limit = None) or match_max_with's wrapper around it, whose captured
\* `maximum` is limit[1].  closure_call gives what one invocation returns,
\* the closure's state afterwards, and whether the caller's predicate ran.
closure_call_always(accept, limit, element) ==
    IF limit = None
    THEN [ret |-> element \in accept, limit |-> limit, called |-> TRUE]
    ELSE IF limit[1] = 0
         THEN [ret |-> FALSE, limit |-> limit, called |-> TRUE]
         ELSE [ret |-> element \in accept, limit |-> Some(limit[1] - 1), called |-> TRUE]

closure_call(accept, limit, element) ==
    IF limit = None
    THEN [ret |-> element \in accept, limit |-> limit, called |-> TRUE]
    ELSE IF limit[1] = 0
         THEN [ret |-> FALSE, limit |-> limit, called |-> FALSE]
         ELSE [ret |-> element \in accept, limit |-> Some(limit[1] - 1), called |-> TRUE]

RECURSIVE slice_match_with_loop(_, _, _, _, _)
slice_match_with_loop(self, index, accept, limit, log) ==
    IF index >= Len(self)
    THEN Ret(Match_new(Some(self), Drop(self, Len(self))), log)
    ELSE LET c == closure_call(accept, limit, self[index + 1])
             log2 == IF c.called THEN Append(log, index) ELSE log
         IN  IF ~c.ret
             THEN Ret(Match_new(Some(Take(self, index)), Drop(self, index)), log2)
             ELSE slice_match_with_loop(self, index + 1, accept, c.limit, log2)

slice_match_with_first_only(self, accept, limit) ==
    IF Len(self) > 0 /\ closure_call(accept, limit, self[1]).ret
    THEN Ret(Match_new(Some(Take(self, 1)), Drop(self, 1)), <<0>>)
    ELSE Ret(Match_new(Some(Take(self, 0)), self), IF Len(self) > 0 THEN <<0>> ELSE <<>>)

slice_match_with(self, accept, limit) == slice_match_with_loop(self, 0, accept, limit, <<>>)

RECURSIVE str_match_with_loop(_, _, _, _, _)
str_match_with_loop(self, index, accept, limit, log) ==
    IF index >= Len(self)
    THEN Ret(Match_new(Some(self), Drop(self, Len(self))), log)
    ELSE LET c == closure_call(accept, limit, self[index + 1])
             log2 == IF c.called THEN Append(log, index) ELSE log
         IN  IF ~c.ret
             THEN Ret(Match_new(Some(Take(self, index)), Drop(self, index)), log2)
             ELSE str_match_with_loop(self, index + len_utf8(self[index + 1]), accept,
                                      c.limit, log2)

str_match_with(self, accept, limit) == str_match_with_loop(self, 0, accept, limit, <<>>)

match_with(kind, self, accept, limit) ==
    IF kind = "slice" THEN slice_match_with(self, accept, limit)
    ELSE str_match_with(self, accept, limit)

\* --------------------------------------------------------- MatchWithInRange
\* The four impls (for &[E] by value and by reference, for &str by value and
\* by reference) have the same text; they differ in the match_with they reach.
\* `self as usize` (match_with_in_range.rs:15-17): a signed count is
\* reinterpreted modulo 2^w, w the width of usize.  w is 16 on the narrowest
\* targets and the i64/u64 impls exist only where w = 64; the model takes
\* w = 16, every wider target wraps a negative count to a larger value still.
UsizeModulus == 2^16

as_usize(n) == n % UsizeModulus

match_min_with_strict(kind, self, min_n, accept) ==
    LET minimum == as_usize(min_n)
    IN  IF Len(self) < minimum
        THEN Ret(Match_failed, <<>>)
        ELSE LET r == match_with(kind, self, accept, None)
             IN  IF r.m.rest # None /\ r.m.matched # None
                 THEN IF minimum < Len(r.m.matched[1])
                      THEN Ret(Match_new(Some(r.m.matched[1]), r.m.rest[1]), r.log)
                      ELSE Ret(Match_failed, r.log)
                 ELSE Ret(Match_failed, r.log)

match_min_with(kind, self, min_n, accept) ==
    LET minimum == as_usize(min_n)
    IN  IF Len(self) < minimum
        THEN Ret(Match_failed, <<>>)
        ELSE LET r == match_with(kind, self, accept, None)
             IN  IF r.m.rest # None /\ r.m.matched # None
                 THEN IF minimum <= Len(r.m.matched[1])
                      THEN Ret(Match_new(Some(r.m.matched[1]), r.m.rest[1]), r.log)
                      ELSE Ret(Match_failed, r.log)
                 ELSE Ret(Match_failed, r.log)

match_max_with_unlimited(kind, self, max_n, accept) ==
    match_with(kind, self, accept, None)

match_max_with(kind, self, max_n, accept) ==
    LET maximum == as_usize(max_n)
    IN  IF maximum <= Len(self)
        THEN match_with(kind, self, accept, Some(maximum))
        ELSE match_with(kind, self, accept, None)

match_min_max_with(kind, self, min_n, max_n, accept) ==
    LET minimum == as_usize(min_n)
        maximum == as_usize(max_n)
    IN  IF maximum < minimum
        THEN Ret(Match_failed, <<>>)
        ELSE IF Len(self) < minimum
        THEN Ret(Match_failed, <<>>)
        ELSE IF Len(self) <= maximum
        THEN match_min_with(kind, self, minimum, accept)
        ELSE LET r == match_max_with(kind, self, minimum, accept)
             IN  IF r.m.rest # None /\ r.m.matched # None
                 THEN IF minimum <= Len(r.m.matched[1])
                      THEN Ret(Match_new(Some(r.m.matched[1]), r.m.rest[1]), r.log)
                      ELSE Ret(Match_failed, r.log)
                 ELSE Ret(Match_failed, r.log)

match_exact_with_at_least(kind, self, count_n, accept) ==
    LET count == as_usize(count_n)
    IN  IF Len(self) < count
        THEN Ret(Match_failed, <<>>)
        ELSE match_min_with(kind, self, count, accept)

match_exact_with(kind, self, count_n, accept) ==
    LET count == as_usize(count_n)
    IN  IF Len(self) < count
        THEN Ret(Match_failed, <<>>)
        ELSE match_min_max_with(kind, self, count, count, accept)

\* ------------------------------------------------- combinators of Match
\* TransformMatch: Failed, OnlyRest(rest), Full(matched, rest)
TransformMatch_Failed == [tag |-> "Failed", matched |-> <<>>, rest |-> <<>>]

TransformMatch_OnlyRest(rest) == [tag |-> "OnlyRest", matched |-> <<>>, rest |-> rest]

TransformMatch_Full(matched, rest) == [tag |-> "Full", matched |-> matched, rest |-> rest]

\* From<TransformMatch<T, U>> for Match<T, U>
TransformMatch_into(data) ==
    IF data.tag = "Failed" THEN Match_failed
    ELSE IF data.tag = "OnlyRest" THEN Match_new(None, data.rest)
    ELSE Match_new(Some(data.matched), data.rest)

Match_transform(self, f) ==
    IF self.rest # None THEN Did(TransformMatch_into(f), 1) ELSE Did(Match_failed, 0)

Match_transform_full(self, f) ==
    IF self.matched # None /\ self.rest # None
    THEN Did(TransformMatch_into(f), 1)
    ELSE Did(Match_failed, 0)

Match_transform_matched(self, f) ==
    IF self.matched # None /\ self.rest # None THEN Did(Match_new(Some(f), self.rest[1]), 1)
    ELSE IF self.rest # None THEN Did(Match_new(None, self.rest[1]), 0)
    ELSE Did(Match_failed, 0)

Match_transform_rest(self, f) ==
    IF self.rest # None THEN Did(Match_new(self.matched, f), 1) ELSE Did(Match_failed, 0)

Match_clear(self) == Did([self EXCEPT !.matched = None], 0)

Match_assert_ignoring(self, f) ==
    IF self.rest # None THEN Did(self, 1) ELSE Did(self, 0)

Match_assert(self, f) ==
    IF self.rest # None
    THEN IF f THEN Did(self, 1) ELSE Did(Match_failed, 1)
    ELSE Did(self, 0)

Match_execute(self) == IF self.rest # None THEN Did(self, 1) ELSE Did(self, 0)

Match_discarding_keeps_rest(self, f) ==
    IF self.rest # None
    THEN IF is_failed(f) THEN Did(Match_failed, 1) ELSE Did(self, 1)
    ELSE Did(Match_failed, 0)

Match_discarding(self, f) ==
    IF self.rest # None
    THEN LET self2 == [self EXCEPT !.rest = f.rest]
         IN  IF is_failed(self2) THEN Did(Match_failed, 1) ELSE Did(self2, 1)
    ELSE Did(Match_failed, 0)

Match_discarding_ref(self, f) ==
    IF self.rest # None
    THEN Did([self EXCEPT !.rest = f.rest], 1)
    ELSE Did(Match_failed, 0)

Match_optional_always_calls(self, f) == IF is_failed(f) THEN Did(self, 1) ELSE Did(f, 1)

Match_optional(self, f) ==
    IF self.rest # None
    THEN IF is_failed(f) THEN Did(self, 1) ELSE Did(f, 1)
    ELSE Did(Match_failed, 0)

Match_optional_ref_keeping(self, f) ==
    IF self.rest # None THEN Did(self, 1) ELSE Did(Match_failed, 0)

Match_optional_ref(self, f) ==
    IF self.rest # None
    THEN IF is_failed(f) THEN Did(self, 1) ELSE Did(f, 1)
    ELSE Did(Match_failed, 0)

\* impl MatchStatic / MatchWith / MatchWithInRange for Match<U, V>
Match_match_static(kind, self, pattern) ==
    IF self.rest # None THEN match_static(kind, self.rest[1], pattern)
    ELSE Ret(Match_failed, <<>>)

Match_match_with(kind, self, accept) ==
    IF self.rest # None THEN match_with(kind, self.rest[1], accept, None)
    ELSE Ret(Match_failed, <<>>)

Match_match_min_with(kind, self, minimum, accept) ==
    IF self.rest # None THEN match_min_with(kind, self.rest[1], minimum, accept)
    ELSE Ret(Match_failed, <<>>)

Match_match_max_with(kind, self, maximum, accept) ==
    IF self.rest # None THEN match_max_with(kind, self.rest[1], maximum, accept)
    ELSE Ret(Match_failed, <<>>)

Match_match_min_max_with(kind, self, minimum, maximum, accept) ==
    IF self.rest # None THEN match_min_max_with(kind, self.rest[1], minimum, maximum, accept)
    ELSE Ret(Match_failed, <<>>)

Match_match_exact_with(kind, self, count, accept) ==
    IF self.rest # None THEN match_exact_with(kind, self.rest[1], count, accept)
    ELSE Ret(Match_failed, <<>>)

\* ------------------------------------------------------------ MappedMatch
\* matched is Option<(T, V)>: None or Some(<<matched, mapped>>)
MappedMatch_new(matched, rest) ==
    [ty |-> "MappedMatch", matched |-> matched, rest |-> Some(rest)]

MappedMatch_failed == [ty |-> "MappedMatch", matched |-> None, rest |-> None]

\* Option::zip
zip(a, b) == IF a # None /\ b # None THEN Some(<<a[1], b[1]>>) ELSE None

Match_map_keeping_value(self, value) ==
    IF self.rest # None
    THEN Did(MappedMatch_new(IF self.matched # None THEN Some(<<self.matched[1], value>>)
                             ELSE Some(<<(<<>>), value>>),
                             self.rest[1]), 0)
    ELSE Did(MappedMatch_failed, 0)

Match_map(self, value) ==
    IF self.rest # None
    THEN Did(MappedMatch_new(zip(self.matched, Some(value)), self.rest[1]), 0)
    ELSE Did(MappedMatch_failed, 0)

\* TransformMappedMatch: Failed, OnlyRest(rest), Full(matched, rest, mapped)
TransformMappedMatch_Failed ==
    [tag |-> "Failed", matched |-> <<>>, rest |-> <<>>, mapped |-> ""]

TransformMappedMatch_OnlyRest(rest) ==
    [tag |-> "OnlyRest", matched |-> <<>>, rest |-> rest, mapped |-> ""]

TransformMappedMatch_Full(matched, rest, mapped) ==
    [tag |-> "Full", matched |-> matched, rest |-> rest, mapped |-> mapped]

\* From<TransformMappedMatch<T, U, V>> for MappedMatch<T, U, V>
TransformMappedMatch_into(data) ==
    IF data.tag = "Failed" THEN MappedMatch_failed
    ELSE IF data.tag = "OnlyRest" THEN MappedMatch_new(None, data.rest)
    ELSE MappedMatch_new(Some(<<data.matched, data.mapped>>), data.rest)

MappedMatch_transform(self, f) ==
    IF self.rest # None THEN Did(TransformMappedMatch_into(f), 1)
    ELSE Did(MappedMatch_failed, 0)

MappedMatch_transform_full(self, f) ==
    IF self.matched # None /\ self.rest # None
    THEN Did(TransformMappedMatch_into(f), 1)
    ELSE Did(MappedMatch_failed, 0)

MappedMatch_transform_matched(self, f) ==
    IF self.matched # None /\ self.rest # None
    THEN Did(MappedMatch_new(Some(<<f, self.matched[1][2]>>), self.rest[1]), 1)
    ELSE IF self.rest # None THEN Did(MappedMatch_new(None, self.rest[1]), 0)
    ELSE Did(MappedMatch_failed, 0)

MappedMatch_transform_rest(self, f) ==
    IF self.rest # None THEN Did(MappedMatch_new(self.matched, f), 1)
    ELSE Did(MappedMatch_failed, 0)

MappedMatch_transform_mapped(self, f) ==
    IF self.matched # None /\ self.rest # None
    THEN Did(MappedMatch_new(Some(<<self.matched[1][1], f>>), self.rest[1]), 1)
    ELSE IF self.rest # None THEN Did(MappedMatch_new(None, self.rest[1]), 0)
    ELSE Did(MappedMatch_failed, 0)

MappedMatch_unmap(self) ==
    IF self.matched # None /\ self.rest # None
    THEN Did(Match_new(Some(self.matched[1][1]), self.rest[1]), 1)
    ELSE IF self.rest # None THEN Did(Match_new(None, self.rest[1]), 0)
    ELSE Did(Match_failed, 0)

MappedMatch_clear(self) == Did([self EXCEPT !.matched = None], 0)

MappedMatch_assert(self, f) ==
    IF self.rest # None
    THEN IF f THEN Did(self, 1) ELSE Did(MappedMatch_failed, 1)
    ELSE Did(self, 0)

MappedMatch_execute(self) == IF self.rest # None THEN Did(self, 1) ELSE Did(self, 0)

MappedMatch_discarding(self, f) ==
    IF self.rest # None
    THEN LET self2 == [self EXCEPT !.rest = f.rest]
         IN  IF is_failed(self2) THEN Did(MappedMatch_failed, 1) ELSE Did(self2, 1)
    ELSE Did(MappedMatch_failed, 0)

MappedMatch_discarding_ref(self, f) ==
    IF self.rest # None
    THEN Did([self EXCEPT !.rest = f.rest], 1)
    ELSE Did(MappedMatch_failed, 0)

MappedMatch_optional(self, f) ==
    IF self.rest # None
    THEN IF is_failed(f) THEN Did(self, 1) ELSE Did(f, 1)
    ELSE Did(MappedMatch_failed, 0)

MappedMatch_optional_ref(self, f) ==
    IF self.rest # None
    THEN IF is_failed(f) THEN Did(self, 1) ELSE Did(f, 1)
    ELSE Did(MappedMatch_failed, 0)

\* impl MatchStatic / MatchWith / MatchWithInRange for MappedMatch<U, V, Q>
MappedMatch_match_static(kind, self, pattern) ==
    IF self.rest # None THEN match_static(kind, self.rest[1], pattern)
    ELSE Ret(Match_failed, <<>>)

MappedMatch_match_with(kind, self, accept) ==
    IF self.rest # None THEN match_with(kind, self.rest[1], accept, None)
    ELSE Ret(Match_failed, <<>>)

MappedMatch_match_min_with(kind, self, minimum, accept) ==
    IF self.rest # None THEN match_min_with(kind, self.rest[1], minimum, accept)
    ELSE Ret(Match_failed, <<>>)

MappedMatch_match_max_with(kind, self, maximum, accept) ==
    IF self.rest # None THEN match_max_with(kind, self.rest[1], maximum, accept)
    ELSE Ret(Match_failed, <<>>)

MappedMatch_match_min_max_with(kind, self, minimum, maximum, accept) ==
    IF self.rest # None THEN match_min_max_with(kind, self.rest[1], minimum, maximum, accept)
    ELSE Ret(Match_failed, <<>>)

MappedMatch_match_exact_with(kind, self, count, accept) ==
    IF self.rest # None THEN match_exact_with(kind, self.rest[1], count, accept)
    ELSE Ret(Match_failed, <<>>)

\* ---------------------------------------------------------- CollectingMatch
\* The pieces matched so far and what is left of the input (absent after a
\* failure).  A callback is given by the Match it returns; the callback of
\* repeat, called several times, by the sequence of Matches it returns.
CollectingMatch_new(matches, rest) ==
    [ty |-> "CollectingMatch", matches |-> matches, rest |-> rest]

CollectingMatch_failed == CollectingMatch_new(<<>>, None)

CollectingMatch_from_rest_only(matched) == CollectingMatch_new(<<>>, matched.rest)

\* From<Match<T, U>>
CollectingMatch_from(matched) ==
    CollectingMatch_new(IF matched.matched # None THEN <<matched.matched[1]>> ELSE <<>>,
                        matched.rest)

Match_into_collecting(self) == Did(CollectingMatch_from(self), 0)

MappedMatch_into_collecting(self) ==
    LET r == MappedMatch_unmap(self) IN Did(CollectingMatch_from(r.m), r.calls)

\* Result<(Vec<T>, U), MatchFailed>
Ok(v) == [ty |-> "Ok", value |-> v]

Err == [ty |-> "Err", value |-> "MatchFailed"]

CollectingMatch_finalize(self) ==
    IF self.rest # None THEN Ok(<<self.matches, self.rest[1]>>) ELSE Err

CollectingMatch_assert(self, f) ==
    IF self.rest # None
    THEN IF f THEN Did(self, 1) ELSE Did(CollectingMatch_failed, 1)
    ELSE Did(CollectingMatch_failed, 0)

CollectingMatch_execute(self) ==
    IF self.rest # None THEN Did(self, 1) ELSE Did(CollectingMatch_failed, 0)

CollectingMatch_single_lenient(self, f) ==
    IF self.rest # None
    THEN IF is_failed(f)
         THEN Did(self, 1)
         ELSE Did(CollectingMatch_new(
                      IF f.matched # None THEN Append(self.matches, f.matched[1])
                      ELSE self.matches,
                      f.rest), 1)
    ELSE Did(CollectingMatch_failed, 0)

CollectingMatch_single_previous(self, f) ==
    IF self.rest # None
    THEN IF is_failed(f)
         THEN Did(CollectingMatch_failed, 1)
         ELSE Did(CollectingMatch_new(
                      IF self.matches # <<>>
                      THEN Append(self.matches, self.matches[Len(self.matches)])
                      ELSE self.matches,
                      f.rest), 1)
    ELSE Did(CollectingMatch_failed, 0)

CollectingMatch_single(self, f) ==
    IF self.rest # None
    THEN IF is_failed(f)
         THEN Did(CollectingMatch_failed, 1)
         ELSE Did(CollectingMatch_new(
                      IF f.matched # None THEN Append(self.matches, f.matched[1])
                      ELSE self.matches,
                      f.rest), 1)
    ELSE Did(CollectingMatch_failed, 0)

\* the loop of repeat after n invocations of f; fs[n + 1] is what the next
\* invocation returns
RECURSIVE CollectingMatch_repeat_loop(_, _, _, _)
CollectingMatch_repeat_loop(self, count, fs, n) ==
    IF self.rest # None
    THEN IF count = 0
         THEN Did(self, n)
         ELSE CollectingMatch_repeat_loop([self EXCEPT !.rest = fs[n + 1].rest],
                                          count - 1, fs, n + 1)
    ELSE Did(CollectingMatch_failed, n)

CollectingMatch_repeat(self, count, fs) == CollectingMatch_repeat_loop(self, count, fs, 0)

CollectingMatch_discarding_appending(self, f) ==
    IF self.rest # None
    THEN Did(CollectingMatch_new(
                 IF f.rest # None /\ f.matched # None
                 THEN Append(self.matches, f.matched[1]) ELSE self.matches,
                 f.rest), 1)
    ELSE Did(CollectingMatch_failed, 0)

CollectingMatch_discarding(self, f) ==
    IF self.rest # None
    THEN Did([self EXCEPT !.rest = f.rest], 1)
    ELSE Did(CollectingMatch_failed, 0)

\* here f is the CollectingMatch the callback's result converts into
CollectingMatch_optional(self, f) ==
    IF self.rest # None
    THEN IF is_failed(f) THEN Did(self, 1) ELSE Did(f, 1)
    ELSE Did(CollectingMatch_failed, 0)

CollectingMatch_optional_ref(self, f) ==
    IF self.rest # None
    THEN IF is_failed(f) THEN Did(self, 1) ELSE Did(f, 1)
    ELSE Did(CollectingMatch_failed, 0)

\* ------------------------------------------------------------ alternatives
\* AlternativesMatch and MappedAlternativesMatch: the value the branches
\* start from and the result of the first branch that did not fail.
AlternativesMatch_new(previous) ==
    [ty |-> "AlternativesMatch", previous |-> previous, matched |-> Match_failed]

MappedAlternativesMatch_new(previous) ==
    [ty |-> "MappedAlternativesMatch", previous |-> previous, matched |-> MappedMatch_failed]

is_matched(self) == ~is_failed(self.matched)

\* f is what the branch function returns when given the previous value
AlternativesMatch_add_path_always(self, f) == Did([self EXCEPT !.matched = f], 1)

AlternativesMatch_add_path(self, f) ==
    IF is_failed(self.matched)
    THEN Did([self EXCEPT !.matched = f], 1)
    ELSE Did(self, 0)

AlternativesMatch_add_path_ref_last_wins(self, f) ==
    IF is_failed(self.matched) \/ ~is_failed(f)
    THEN Did([self EXCEPT !.matched = f], 1)
    ELSE Did(self, 0)

AlternativesMatch_add_path_ref(self, f) ==
    IF is_failed(self.matched)
    THEN Did([self EXCEPT !.matched = f], 1)
    ELSE Did(self, 0)

AlternativesMatch_finalize(self) == Did(self.matched, 0)

MappedAlternativesMatch_add_path_absorbing(self, f) ==
    IF is_failed(self.matched) /\ ~is_failed(self.previous)
    THEN Did([self EXCEPT !.matched = f], 1)
    ELSE Did(self, 0)

MappedAlternativesMatch_add_path(self, f) ==
    IF is_failed(self.matched)
    THEN Did([self EXCEPT !.matched = f], 1)
    ELSE Did(self, 0)

MappedAlternativesMatch_add_path_ref(self, f) ==
    IF is_failed(self.matched)
    THEN Did([self EXCEPT !.matched = f], 1)
    ELSE Did(self, 0)

MappedAlternativesMatch_finalize(self) == Did(self.matched, 0)

\* ------------------------------------------------------------------ state
\* A caller holds one result (res) and applies one operation of the library
\* to it at a time.
VARIABLES
    kind,      \* what the sequences are: "slice" (&[E]) or "str" (&str)
    res,       \* the Match or MappedMatch the caller holds
    pre,       \* the value the last operation was applied to
    op,        \* the last operation, "" once the caller has bound its result
    args,      \* its arguments
    log,       \* the indices at which it invoked the caller's predicate
    calls,     \* how many times it invoked the caller's callback
    panicked,  \* it panicked: the program is gone
    hist       \* the calls made so far on an alternatives tree or a
               \* CollectingMatch, oldest first: what each callback returns
               \* and how often the call invoked it

vars == <<kind, res, pre, op, args, log, calls, panicked, hist>>

NoArgs == [pattern |-> <<>>, accept |-> {}, minimum |-> 0, maximum |-> 0, f |-> <<>>]

\* the values a caller's callbacks hand back
CbVals == {<<>>, <<1>>}

MapVals == {"A", "B"}

CbMatch ==
    {Match_failed} \cup
    {Match_new(m, r) : m \in {None} \cup {Some(v) : v \in CbVals}, r \in CbVals}

CbMappedMatch ==
    {MappedMatch_failed} \cup
    {MappedMatch_new(m, r) :
        m \in {None} \cup {Some(<<t, v>>) : t \in CbVals, v \in MapVals}, r \in CbVals}

CbTransformMatch ==
    {TransformMatch_Failed} \cup
    {TransformMatch_OnlyRest(r) : r \in CbVals} \cup
    {TransformMatch_Full(t, r) : t \in CbVals, r \in CbVals}

CbTransformMappedMatch ==
    {TransformMappedMatch_Failed} \cup
    {TransformMappedMatch_OnlyRest(r) : r \in CbVals} \cup
    {TransformMappedMatch_Full(t, r, v) : t \in CbVals, r \in CbVals, v \in MapVals}

IsMatch == res.ty = "Match"

IsMapped == res.ty = "MappedMatch"

Init ==
    /\ kind \in Kinds
    /\ \E data \in Inputs(kind) :
          \/ res = into_match(data)
          \/ res = Match_failed
          \/ \E m \in CbVals : res = Match_new(Some(m), data)
    /\ pre = res
    /\ op = ""
    /\ args = NoArgs
    /\ log = <<>>
    /\ calls = 0
    /\ panicked = FALSE
    /\ hist = <<>>

\* the caller applies operation o with arguments a to the result it holds;
\* r is what the call does
Step(o, a, r) ==
    /\ ~panicked
    /\ op = ""
    /\ pre' = res
    /\ op' = o
    /\ args' = a
    /\ res' = r.m
    /\ log' = r.log
    /\ calls' = r.calls
    /\ panicked' = r.panicked
    /\ UNCHANGED <<kind, hist>>

\* ------------------------------------------------------- chained matchers
DoMatchStatic ==
    \E pattern \in Patterns(kind) :
        Step("match_static", [NoArgs EXCEPT !.pattern = pattern],
             IF IsMatch THEN Match_match_static(kind, res, pattern)
             ELSE MappedMatch_match_static(kind, res, pattern))

DoMatchWith ==
    \E accept \in Predicates(kind) :
        Step("match_with", [NoArgs EXCEPT !.accept = accept],
             IF IsMatch THEN Match_match_with(kind, res, accept)
             ELSE MappedMatch_match_with(kind, res, accept))

DoMatchMinWithOf(N) ==
    \E accept \in Predicates(kind), minimum \in N :
        Step("match_min_with", [NoArgs EXCEPT !.accept = accept, !.minimum = minimum],
             IF IsMatch THEN Match_match_min_with(kind, res, minimum, accept)
             ELSE MappedMatch_match_min_with(kind, res, minimum, accept))

DoMatchMinWith == DoMatchMinWithOf(Counts)

DoMatchMaxWithOf(N) ==
    \E accept \in Predicates(kind), maximum \in N :
        Step("match_max_with", [NoArgs EXCEPT !.accept = accept, !.maximum = maximum],
             IF IsMatch THEN Match_match_max_with(kind, res, maximum, accept)
             ELSE MappedMatch_match_max_with(kind, res, maximum, accept))

DoMatchMaxWith == DoMatchMaxWithOf(Counts)

DoMatchMinMaxWithOf(N) ==
    \E accept \in Predicates(kind), minimum \in N, maximum \in N :
        Step("match_min_max_with",
             [NoArgs EXCEPT !.accept = accept, !.minimum = minimum, !.maximum = maximum],
             IF IsMatch THEN Match_match_min_max_with(kind, res, minimum, maximum, accept)
             ELSE MappedMatch_match_min_max_with(kind, res, minimum, maximum, accept))

DoMatchMinMaxWith == DoMatchMinMaxWithOf(Counts)

DoMatchExactWithOf(N) ==
    \E accept \in Predicates(kind), count \in N :
        Step("match_exact_with",
             [NoArgs EXCEPT !.accept = accept, !.minimum = count, !.maximum = count],
             IF IsMatch THEN Match_match_exact_with(kind, res, count, accept)
             ELSE MappedMatch_match_exact_with(kind, res, count, accept))

DoMatchExactWith == DoMatchExactWithOf(Counts)

\* ---------------------------------------------------------- combinators
DoTransform ==
    \/ IsMatch /\ \E f \in CbTransformMatch :
          Step("transform", [NoArgs EXCEPT !.f = f], Match_transform(res, f))
    \/ IsMapped /\ \E f \in CbTransformMappedMatch :
          Step("transform", [NoArgs EXCEPT !.f = f], MappedMatch_transform(res, f))

DoTransformFull ==
    \/ IsMatch /\ \E f \in CbTransformMatch :
          Step("transform_full", [NoArgs EXCEPT !.f = f], Match_transform_full(res, f))
    \/ IsMapped /\ \E f \in CbTransformMappedMatch :
          Step("transform_full", [NoArgs EXCEPT !.f = f], MappedMatch_transform_full(res, f))

DoTransformMatched ==
    \E f \in CbVals :
        Step("transform_matched", [NoArgs EXCEPT !.f = f],
             IF IsMatch THEN Match_transform_matched(res, f)
             ELSE MappedMatch_transform_matched(res, f))

DoTransformRest ==
    \E f \in CbVals :
        Step("transform_rest", [NoArgs EXCEPT !.f = f],
             IF IsMatch THEN Match_transform_rest(res, f)
             ELSE MappedMatch_transform_rest(res, f))

DoTransformMapped ==
    /\ IsMapped
    /\ \E f \in MapVals :
          Step("transform_mapped", [NoArgs EXCEPT !.f = f], MappedMatch_transform_mapped(res, f))

DoMap ==
    /\ IsMatch
    /\ \E value \in MapVals : Step("map", [NoArgs EXCEPT !.f = value], Match_map(res, value))

DoUnmap == IsMapped /\ Step("unmap", NoArgs, MappedMatch_unmap(res))

DoClear == Step("clear", NoArgs, IF IsMatch THEN Match_clear(res) ELSE MappedMatch_clear(res))

DoAssert ==
    \E f \in BOOLEAN :
        Step("assert", [NoArgs EXCEPT !.f = f],
             IF IsMatch THEN Match_assert(res, f) ELSE MappedMatch_assert(res, f))

DoExecute ==
    Step("execute", NoArgs, IF IsMatch THEN Match_execute(res) ELSE MappedMatch_execute(res))

DoDiscarding ==
    \/ IsMatch /\ \E f \in CbMatch :
          Step("discarding", [NoArgs EXCEPT !.f = f], Match_discarding(res, f))
    \/ IsMapped /\ \E f \in CbMappedMatch :
          Step("discarding", [NoArgs EXCEPT !.f = f], MappedMatch_discarding(res, f))

DoDiscardingRef ==
    \/ IsMatch /\ \E f \in CbMatch :
          Step("discarding_ref", [NoArgs EXCEPT !.f = f], Match_discarding_ref(res, f))
    \/ IsMapped /\ \E f \in CbMappedMatch :
          Step("discarding_ref", [NoArgs EXCEPT !.f = f], MappedMatch_discarding_ref(res, f))

DoOptional ==
    \/ IsMatch /\ \E f \in CbMatch :
          Step("optional", [NoArgs EXCEPT !.f = f], Match_optional(res, f))
    \/ IsMapped /\ \E f \in CbMappedMatch :
          Step("optional", [NoArgs EXCEPT !.f = f], MappedMatch_optional(res, f))

DoOptionalRef ==
    \/ IsMatch /\ \E f \in CbMatch :
          Step("optional_ref", [NoArgs EXCEPT !.f = f], Match_optional_ref(res, f))
    \/ IsMapped /\ \E f \in CbMappedMatch :
          Step("optional_ref", [NoArgs EXCEPT !.f = f], MappedMatch_optional_ref(res, f))

\* the call has returned: the caller binds the returned value (`let m = ...;`)
\* and goes on from it
Bind ==
    /\ ~panicked
    /\ op # ""
    /\ pre' = res
    /\ op' = ""
    /\ args' = NoArgs
    /\ log' = <<>>
    /\ calls' = 0
    /\ UNCHANGED <<kind, res, panicked, hist>>

Next ==
    \/ Bind
    \/ DoMatchStatic
    \/ DoMatchWith
    \/ DoMatchMinWith
    \/ DoMatchMaxWith
    \/ DoMatchMinMaxWith
    \/ DoMatchExactWith
    \/ DoTransform
    \/ DoTransformFull
    \/ DoTransformMatched
    \/ DoTransformRest
    \/ DoTransformMapped
    \/ DoMap
    \/ DoUnmap
    \/ DoClear
    \/ DoAssert
    \/ DoExecute
    \/ DoDiscarding
    \/ DoDiscardingRef
    \/ DoOptional
    \/ DoOptionalRef

Spec == Init /\ [][Next]_vars

\* the same caller with the counts of the range matchers typed as a signed
\* integer (N = i8 .. isize), which admits negative values
NextSigned ==
    \/ Bind
    \/ DoMatchMinWithOf(SignedCounts)
    \/ DoMatchMaxWithOf(SignedCounts)
    \/ DoMatchMinMaxWithOf(SignedCounts)
    \/ DoMatchExactWithOf(SignedCounts)

SpecSigned == Init /\ [][NextSigned]_vars

\* ------------------------------------------------------------ alternation
\* A caller builds an alternatives tree (x.alternatives() or
\* x.mapped_alternatives()), registers branches and finalizes it.

\* what a branch function can return: what any callback returns, or the
\* failed result still holding a matched part that discarding_ref yields
BranchMatch ==
    CbMatch \cup {Match_discarding_ref(Match_new(Some(<<1>>), <<>>), Match_failed).m}

BranchMappedMatch ==
    CbMappedMatch \cup
    {MappedMatch_discarding_ref(MappedMatch_new(Some(<<(<<1>>), "A">>), <<>>),
                                MappedMatch_failed).m}

IsAlt == res.ty = "AlternativesMatch"

IsMappedAlt == res.ty = "MappedAlternativesMatch"

InitAlt ==
    /\ kind = "slice"
    /\ \E previous \in {Match_failed, into_match(<<1>>)} :
          \/ res = AlternativesMatch_new(previous)
          \/ res = MappedAlternativesMatch_new(previous)
    /\ pre = res
    /\ op = ""
    /\ args = NoArgs
    /\ log = <<>>
    /\ calls = 0
    /\ panicked = FALSE
    /\ hist = <<>>

\* the caller applies operation o with callback f to the value it holds;
\* r is what the call does, h what is remembered of it
Call(o, f, r, h) ==
    /\ pre' = res
    /\ op' = o
    /\ args' = [NoArgs EXCEPT !.f = f]
    /\ res' = r.m
    /\ log' = r.log
    /\ calls' = r.calls
    /\ panicked' = r.panicked
    /\ hist' = Append(hist, h)
    /\ UNCHANGED kind

\* a branch is registered: its function would return f
Path(o, f, r) == Call(o, f, r, [f |-> f, calls |-> r.calls])

DoAddPath ==
    /\ Len(hist) < MaxPaths
    /\ \/ IsAlt /\ \E f \in BranchMatch :
             Path("add_path", f, AlternativesMatch_add_path(res, f))
       \/ IsMappedAlt /\ \E f \in BranchMappedMatch :
             Path("add_path", f, MappedAlternativesMatch_add_path(res, f))

DoAddPathRef ==
    /\ Len(hist) < MaxPaths
    /\ \/ IsAlt /\ \E f \in BranchMatch :
             Path("add_path_ref", f, AlternativesMatch_add_path_ref(res, f))
       \/ IsMappedAlt /\ \E f \in BranchMappedMatch :
             Path("add_path_ref", f, MappedAlternativesMatch_add_path_ref(res, f))

DoFinalize ==
    /\ pre' = res
    /\ op' = "finalize"
    /\ args' = NoArgs
    /\ log' = <<>>
    /\ calls' = 0
    /\ \/ IsAlt /\ res' = AlternativesMatch_finalize(res).m
       \/ IsMappedAlt /\ res' = MappedAlternativesMatch_finalize(res).m
    /\ UNCHANGED <<kind, panicked, hist>>

NextAlt == DoAddPath \/ DoAddPathRef \/ DoFinalize

SpecAlt == InitAlt /\ [][NextAlt]_vars

\* -------------------------------------------------------------- collecting
\* A caller holds a Match or MappedMatch, may try optional continuations on
\* it, turns it into a CollectingMatch, chains collecting steps and
\* finalizes.
CbCollecting == {CollectingMatch_from(m) : m \in CbMatch}

\* what one invocation of the callback of repeat returns: a failure, a
\* success without a matched part, a success with one
CbRepeat ==
    {Match_failed, Match_new(None, <<1>>), Match_new(Some(<<>>), <<>>),
     Match_new(Some(<<1>>), <<1>>)}

IsCollecting == res.ty = "CollectingMatch"

InitCol ==
    /\ kind = "slice"
    /\ res \in CbMatch \cup CbMappedMatch
    /\ pre = res
    /\ op = ""
    /\ args = NoArgs
    /\ log = <<>>
    /\ calls = 0
    /\ panicked = FALSE
    /\ hist = <<>>

DoIntoCollecting ==
    \/ IsMatch /\ Step("into_collecting", NoArgs, Match_into_collecting(res))
    \/ IsMapped /\ Step("into_collecting", NoArgs, MappedMatch_into_collecting(res))

DoCollectingAssert ==
    IsCollecting /\ \E f \in BOOLEAN :
        Step("assert", [NoArgs EXCEPT !.f = f], CollectingMatch_assert(res, f))

DoCollectingExecute ==
    IsCollecting /\ Step("execute", NoArgs, CollectingMatch_execute(res))

DoSingle ==
    /\ IsCollecting
    /\ Len(res.matches) < MaxMatches
    /\ \E f \in CbMatch :
          Step("single", [NoArgs EXCEPT !.f = f], CollectingMatch_single(res, f))

DoRepeat ==
    IsCollecting /\ \E count \in Counts : \E fs \in [1..count -> CbRepeat] :
        Step("repeat", [NoArgs EXCEPT !.minimum = count, !.maximum = count, !.f = fs],
             CollectingMatch_repeat(res, count, fs))

DoCollectingDiscarding ==
    IsCollecting /\ \E f \in CbMatch :
        Step("discarding", [NoArgs EXCEPT !.f = f], CollectingMatch_discarding(res, f))

DoCollectingOptional ==
    IsCollecting /\ \E f \in CbCollecting :
        Step("optional", [NoArgs EXCEPT !.f = f], CollectingMatch_optional(res, f))

DoCollectingOptionalRef ==
    IsCollecting /\ \E f \in CbCollecting :
        Step("optional_ref", [NoArgs EXCEPT !.f = f], CollectingMatch_optional_ref(res, f))

DoCollectingFinalize ==
    IsCollecting /\ Step("finalize", NoArgs, Did(CollectingMatch_finalize(res), 0))

NextCol ==
    \/ Bind
    \/ DoOptional
    \/ DoOptionalRef
    \/ DoIntoCollecting
    \/ DoCollectingAssert
    \/ DoCollectingExecute
    \/ DoSingle
    \/ DoRepeat
    \/ DoCollectingDiscarding
    \/ DoCollectingOptional
    \/ DoCollectingOptionalRef
    \/ DoCollectingFinalize

SpecCol == InitCol /\ [][NextCol]_vars

\* ------------------------------------------------------------------ chains
\* A caller turns a Match m into a CollectingMatch, chains single steps and
\* finalizes; hist holds m and then what each step's callback returned.
ChainIntoCollecting ==
    /\ IsMatch
    /\ hist = <<>>
    /\ Call("into_collecting", <<>>, Match_into_collecting(res), res)

ChainSingle ==
    /\ IsCollecting
    /\ Len(hist) <= MaxMatches
    /\ \E f \in CbMatch : Call("single", f, CollectingMatch_single(res, f), f)

ChainFinalize ==
    /\ IsCollecting
    /\ pre' = res
    /\ op' = "finalize"
    /\ args' = NoArgs
    /\ log' = <<>>
    /\ calls' = 0
    /\ res' = CollectingMatch_finalize(res)
    /\ UNCHANGED <<kind, panicked, hist>>

NextChain == ChainIntoCollecting \/ ChainSingle \/ ChainFinalize

SpecChain == InitCol /\ [][NextChain]_vars

\* ================================================================ claims
\* the sequence a matcher was applied to (the rest of the value it was chained on)
Arg == pre.rest[1]

\* the matched part of a result, empty when absent
MatchedOrEmpty(m) == IF m.matched = None THEN <<>> ELSE m.matched[1]

MatcherOps ==
    {"match_static", "match_with", "match_min_with", "match_max_with",
     "match_min_max_with", "match_exact_with"}

\* a matcher ran on a sequence and returned
Matched(o) == op = o /\ ~is_failed(pre) /\ ~panicked

\* the lengths k such that the first k elements of seq (bytes, ending on a
\* character boundary, for a string) are all accepted
AcceptedPrefixes(k0, seq, accept) ==
    {k \in 0..Len(seq) :
        /\ (k0 = "str" => is_char_boundary(seq, k))
        /\ \A i \in 1..k : (k0 = "slice" \/ IsLead(seq[i])) => seq[i] \in accept}

\* L: the length of the longest prefix satisfying the predicate
LongestAccepted(k0, seq, accept) ==
    CHOOSE k \in AcceptedPrefixes(k0, seq, accept) :
        \A j \in AcceptedPrefixes(k0, seq, accept) : j <= k

\* C1: whenever a matcher returns a success, its matched part (empty when
\* absent) followed by its rest is exactly the sequence it was applied to.
C1_Partition ==
    (op \in MatcherOps /\ ~is_failed(pre) /\ ~panicked /\ ~is_failed(res))
        => MatchedOrEmpty(res) \o res.rest[1] = Arg

C1_Witness ==
    /\ Matched("match_static")
    /\ ~is_failed(res)
    /\ Len(MatchedOrEmpty(res)) = 2
    /\ Len(res.rest[1]) = 1

\* C2: every operation applied to an already failed Match or MappedMatch
\* returns a failed result and invokes neither callback nor predicate.
C2_Absorption ==
    (op # "" /\ is_failed(pre))
        => is_failed(res) /\ calls = 0 /\ log = <<>> /\ ~panicked

C2_Witness ==
    /\ op = "optional"
    /\ is_failed(pre)
    /\ ~is_failed(args.f)
    /\ is_failed(res)

\* C3: in every result the caller can hold, an absent rest implies an absent
\* matched part.
C3_FailureIsUnique == res.rest = None => res.matched = None

\* C4 as stated: for a non-empty pattern, with n the smaller of the two
\* lengths, match_static succeeds iff the first n elements of the sequence
\* equal the first n elements of the pattern.
C4_Truncation ==
    (Matched("match_static") /\ args.pattern # <<>>)
        => LET n == Min(Len(Arg), Len(args.pattern))
           IN  ~is_failed(res) <=> Take(Arg, n) = Take(args.pattern, n)

\* C4 amended: for a non-empty pattern, with n the smaller of the two
\* lengths, match_static returns a success iff the first n elements of the
\* sequence equal the whole pattern; a pattern longer than the sequence
\* makes it return a failed result.
C4_WholePattern ==
    (op = "match_static" /\ ~is_failed(pre) /\ args.pattern # <<>>)
        => LET n == Min(Len(Arg), Len(args.pattern))
           IN  /\ (~panicked /\ ~is_failed(res)) <=> Take(Arg, n) = args.pattern
               /\ Len(args.pattern) > Len(Arg) => ~panicked /\ is_failed(res)

C4_Witness ==
    /\ Matched("match_static")
    /\ Len(Arg) > 0
    /\ Len(args.pattern) > Len(Arg)
    /\ Take(args.pattern, Len(Arg)) = Arg
    /\ is_failed(res)

\* C5: for a pattern no longer than the sequence, match_static returns a
\* success iff the pattern is a prefix of the sequence, and a failed result
\* otherwise; on success matched is that prefix (present, also when empty)
\* and rest is the remaining suffix.
C5_Exactness ==
    (op = "match_static" /\ ~is_failed(pre) /\ Len(args.pattern) <= Len(Arg))
        => /\ ~panicked
           /\ IF Take(Arg, Len(args.pattern)) = args.pattern
              THEN res = Match_new(Some(args.pattern), Drop(Arg, Len(args.pattern)))
              ELSE res = Match_failed

\* C6: match_static on a string never panics.
C6_NoPanic == (op = "match_static" /\ kind = "str") => ~panicked

\* C7: match_with always returns a success whose matched part is present and
\* is the longest prefix of accepted elements, and whose rest is what
\* follows that prefix.
C7_Maximality ==
    (op = "match_with" /\ ~is_failed(pre))
        => LET L == LongestAccepted(kind, Arg, args.accept)
           IN  /\ ~panicked
               /\ res = Match_new(Some(Take(Arg, L)), Drop(Arg, L))

C7_Witness ==
    /\ Matched("match_with")
    /\ Len(MatchedOrEmpty(res)) = 2
    /\ Len(res.rest[1]) = 1

\* C8: match_min_with on a slice fails without invoking the predicate when
\* the slice is shorter than min; otherwise it succeeds iff L >= min, with
\* the matched part and rest of match_with (L elements, not min).
C8_MinWith ==
    (op = "match_min_with" /\ kind = "slice" /\ ~is_failed(pre))
        => LET L == LongestAccepted(kind, Arg, args.accept)
           IN  /\ ~panicked
               /\ Len(Arg) < args.minimum => is_failed(res) /\ log = <<>>
               /\ Len(Arg) >= args.minimum => (~is_failed(res) <=> L >= args.minimum)
               /\ ~is_failed(res)
                    => /\ res = slice_match_with(Arg, args.accept, None).m
                       /\ res = Match_new(Some(Take(Arg, L)), Drop(Arg, L))

C8_Witness ==
    /\ Matched("match_min_with")
    /\ kind = "slice"
    /\ ~is_failed(res)
    /\ args.minimum = 1
    /\ Len(MatchedOrEmpty(res)) = 2
    /\ Len(res.rest[1]) = 1

\* the number of elements of seq: of characters, for a string
ElemCount(k0, seq) ==
    IF k0 = "slice" THEN Len(seq) ELSE Cardinality({i \in 1..Len(seq) : IsLead(seq[i])})

\* C9: match_max_with never fails; its matched part is the longest accepted
\* prefix of at most max elements, that is the prefix of min(max, L)
\* elements, and its rest is everything after that prefix.
C9_MaxWith ==
    (op = "match_max_with" /\ ~is_failed(pre))
        => LET L == LongestAccepted(kind, Arg, args.accept)
               S == {k \in AcceptedPrefixes(kind, Arg, args.accept) :
                        ElemCount(kind, Take(Arg, k)) <= args.maximum}
               n == CHOOSE k \in S : \A j \in S : j <= k
           IN  /\ ~panicked
               /\ res = Match_new(Some(Take(Arg, n)), Drop(Arg, n))
               /\ ElemCount(kind, Take(Arg, n))
                    = Min(args.maximum, ElemCount(kind, Take(Arg, L)))

C9_Witness ==
    /\ Matched("match_max_with")
    /\ kind = "slice"
    /\ args.maximum = 1
    /\ Len(MatchedOrEmpty(res)) = 1
    /\ Len(res.rest[1]) = 2
    /\ res.rest[1][1] \in args.accept

\* C10: match_min_max_with on a slice fails if max < min, if the slice is
\* shorter than min, or if L < min; otherwise it succeeds with the first
\* min(L, max) elements matched and the remainder as rest.
C10_MinMaxWith ==
    (op = "match_min_max_with" /\ kind = "slice" /\ ~is_failed(pre))
        => LET L == LongestAccepted(kind, Arg, args.accept)
               n == Min(L, args.maximum)
           IN  /\ ~panicked
               /\ IF args.maximum < args.minimum \/ Len(Arg) < args.minimum
                     \/ L < args.minimum
                  THEN is_failed(res)
                  ELSE res = Match_new(Some(Take(Arg, n)), Drop(Arg, n))

\* C11: match_exact_with on a slice succeeds iff the slice has at least n
\* elements and each of the first n is accepted; the matched part is then
\* exactly the first n elements and rest the remainder; its result is the
\* result of match_min_max_with with min = max = n.
C11_ExactWith ==
    (op = "match_exact_with" /\ kind = "slice" /\ ~is_failed(pre))
        => LET n == args.minimum
           IN  /\ ~panicked
               /\ IF Len(Arg) >= n /\ \A i \in 1..n : Arg[i] \in args.accept
                  THEN res = Match_new(Some(Take(Arg, n)), Drop(Arg, n))
                  ELSE is_failed(res)
               /\ res = match_min_max_with(kind, Arg, n, n, args.accept).m

C11_Witness ==
    /\ Matched("match_exact_with")
    /\ kind = "slice"
    /\ args.minimum = 1
    /\ Len(MatchedOrEmpty(res)) = 1
    /\ Len(res.rest[1]) = 2
    /\ res.rest[1][1] \in args.accept

RangeOps ==
    {"match_min_with", "match_max_with", "match_min_max_with", "match_exact_with"}

\* C12: a negative count of a signed type is rejected, never converted
\* modulo 2^w: a range matcher given one returns a failed result; in
\* particular match_max_with with max = -1 does not behave as an unlimited
\* maximum.
C12_NoWrap ==
    (op \in RangeOps /\ ~is_failed(pre) /\ (args.minimum < 0 \/ args.maximum < 0))
        => is_failed(res) \/ panicked

\* the registered branches whose function returns a success
Successes == {i \in 1..Len(hist) : ~is_failed(hist[i].f)}

\* the first of them in registration order
FirstSuccess == CHOOSE i \in Successes : \A j \in Successes : i <= j

\* C13: the branch functions are invoked in registration order, each at
\* most once, up to and including the first that returns a success, and
\* none after it; from then on is_matched() is true and the stored result is
\* that branch's result, whatever add_path or add_path_ref calls follow, in
\* the plain and in the mapped alternation.
C13_ShortCircuit ==
    /\ \A i \in 1..Len(hist) :
          hist[i].calls = IF \E j \in Successes : j < i THEN 0 ELSE 1
    /\ (IsAlt \/ IsMappedAlt) /\ Successes # {}
          => is_matched(res) /\ res.matched = hist[FirstSuccess].f
    /\ (op \in {"add_path", "add_path_ref"} /\ is_matched(pre))
          => res = pre /\ calls = 0

C13_Witness ==
    /\ IsMappedAlt
    /\ op = "add_path"
    /\ Len(hist) = 3
    /\ Successes = {2, 3}
    /\ hist[2].f # hist[3].f

\* C14: finalize() of a plain alternation returns exactly the result of the
\* first registered branch whose result is a success, also when a later
\* branch would succeed with a longer match; it returns a failed result
\* when every branch failed or none was registered.
C14_FirstSuccessWins ==
    (op = "finalize" /\ pre.ty = "AlternativesMatch")
        => IF Successes # {}
           THEN res = hist[FirstSuccess].f
           ELSE is_failed(res)

C14_Witness ==
    /\ op = "finalize"
    /\ pre.ty = "AlternativesMatch"
    /\ Successes = {2, 3}
    /\ res = Match_new(None, <<1>>)
    /\ hist[3].f = Match_new(Some(<<1>>), <<>>)

\* the matched part a MappedMatch carries (MappedMatch::matched)
MappedMatch_matched(self) == IF self.matched = None THEN None ELSE Some(self.matched[1][1])

\* the mapped value a MappedMatch carries (MappedMatch::mapped)
mapped(self) == IF self.matched = None THEN None ELSE Some(self.matched[1][2])

\* C15: the mapped value carried by the finalized result of a mapped
\* alternation is the value attached by the first successful branch, and
\* never a value from a failed or a later branch.
C15_MappedValue ==
    (op = "finalize" /\ pre.ty = "MappedAlternativesMatch")
        => IF Successes # {}
           THEN mapped(res) = mapped(hist[FirstSuccess].f)
           ELSE mapped(res) = None

\* C16: optional and optional_ref on a successful Match, MappedMatch or
\* CollectingMatch m invoke f exactly once; they return m unchanged when f
\* returns a failed value and f's result when it returns a success.
C16_Optional ==
    (op \in {"optional", "optional_ref"} /\ ~is_failed(pre))
        => /\ calls = 1
           /\ ~panicked
           /\ res = IF is_failed(args.f) THEN pre ELSE args.f

C16_Witness ==
    /\ op = "optional_ref"
    /\ pre.ty = "CollectingMatch"
    /\ ~is_failed(pre)
    /\ Len(pre.matches) = 2
    /\ ~is_failed(args.f)
    /\ res.matches = <<>>

\* C17: discarding(f) on a successful Match with matched m and rest r
\* calls f once; when f returns a success with rest r2 the result has matched
\* m and rest r2, and when f returns a failed value the result is failed.
C17_Discarding ==
    (op = "discarding" /\ pre.ty = "Match" /\ ~is_failed(pre))
        => /\ calls = 1
           /\ ~panicked
           /\ IF is_failed(args.f)
              THEN res = Match_failed
              ELSE res = Match_new(pre.matched, args.f.rest[1])

C17_Witness ==
    /\ op = "discarding"
    /\ pre.ty = "Match"
    /\ pre.matched = Some(<<1, 1>>)
    /\ args.f.matched = Some(<<>>)
    /\ args.f.rest # pre.rest
    /\ ~is_failed(res)

\* C18: assert on a successful Match or MappedMatch evaluates the predicate
\* exactly once and returns the input unchanged when it is true, the failed
\* value when it is false; on a failed input the predicate is not evaluated
\* and the failed input is returned.
C18_Assert ==
    (op = "assert" /\ pre.ty \in {"Match", "MappedMatch"})
        => /\ ~panicked
           /\ ~is_failed(pre) /\ args.f => calls = 1 /\ res = pre
           /\ ~is_failed(pre) /\ ~args.f
                => /\ calls = 1
                   /\ res = IF pre.ty = "Match" THEN Match_failed ELSE MappedMatch_failed
           /\ is_failed(pre) => calls = 0 /\ res = pre

C18_Witness ==
    /\ op = "assert"
    /\ pre.ty = "MappedMatch"
    /\ pre.matched # None
    /\ ~is_failed(pre)
    /\ ~args.f
    /\ res = MappedMatch_failed

\* C19: when an application of f inside repeat(count, f), count >= 1, or
\* a single(f) step of a chain returns a failed value, finalize() returns
\* MatchFailed, also after further steps of the chain, and exposes no
\* accumulated piece; repeat followed by finalize succeeds only if all
\* count applications succeeded.
C19_AllOrNothing ==
    /\ (op = "repeat" /\ ~is_failed(pre) /\ args.minimum >= 1
          /\ \E k \in 1..args.minimum : is_failed(args.f[k]))
          => CollectingMatch_finalize(res) = Err
    /\ (op = "single" /\ ~is_failed(pre) /\ is_failed(args.f))
          => CollectingMatch_finalize(res) = Err
    /\ (pre.ty = "CollectingMatch" /\ is_failed(pre))
          => IF op = "finalize" THEN res = Err ELSE CollectingMatch_finalize(res) = Err
    /\ (op = "repeat" /\ CollectingMatch_finalize(res).ty = "Ok")
          => \A k \in 1..args.minimum : ~is_failed(args.f[k])

C19_Witness ==
    /\ op = "repeat"
    /\ args.minimum = 3
    /\ Len(pre.matches) = 2
    /\ ~is_failed(pre)
    /\ args.f[1].matched = Some(<<1>>)
    /\ ~is_failed(args.f[2])
    /\ is_failed(args.f[3])
    /\ res = CollectingMatch_failed

\* single(f) applied count times, the i-th time with what the i-th
\* invocation of f returns
RECURSIVE SingleTimes(_, _, _)
SingleTimes(self, fs, count) ==
    IF count = 0 THEN self
    ELSE CollectingMatch_single(SingleTimes(self, fs, count - 1), fs[count]).m

\* C20: repeat(count, f) gives the accumulated list and the rest that
\* single(f) applied count times gives; after a fully successful repeat the
\* list has grown by the matched part of each application.
C20_RepeatIsSingle ==
    (op = "repeat" /\ ~is_failed(pre))
        => res = SingleTimes(pre, args.f, args.minimum)

\* C21: in every CollectingMatch reached from into_collecting by single,
\* repeat, discarding, assert, execute, optional and optional_ref, an absent
\* rest implies an empty accumulated list, so that every failed
\* CollectingMatch equals failed(); and once rest is absent it stays absent
\* under every later operation.
C21_FailureInvariant ==
    /\ IsCollecting /\ res.rest = None => res = CollectingMatch_failed
    /\ (IsCollecting /\ pre.ty = "CollectingMatch" /\ pre.rest = None)
          => res.rest = None

\* C22: discarding on a non-failed CollectingMatch calls f once; when f
\* returns a success the accumulated list is exactly what it was and rest
\* is f's rest; when f returns a failed value the CollectingMatch is failed.
C22_CollectingDiscarding ==
    (op = "discarding" /\ pre.ty = "CollectingMatch" /\ ~is_failed(pre))
        => /\ calls = 1
           /\ ~panicked
           /\ IF is_failed(args.f)
              THEN is_failed(res)
              ELSE res = CollectingMatch_new(pre.matches, args.f.rest)

C22_Witness ==
    /\ op = "discarding"
    /\ pre.ty = "CollectingMatch"
    /\ Len(pre.matches) = 1
    /\ args.f.matched = Some(<<1>>)
    /\ args.f.rest # pre.rest
    /\ ~is_failed(res)
    /\ res.matches = pre.matches

\* the value the alternatives tree was created from
Previous == IF IsAlt \/ IsMappedAlt THEN res.previous ELSE pre.previous

\* C23 as stated: on a tree created from a failed Match every add_path and
\* add_path_ref is a no-op that invokes no branch function, and finalize()
\* returns a failure.
C23_Absorption ==
    is_failed(Previous)
        => /\ \A i \in 1..Len(hist) : hist[i].calls = 0
           /\ op \in {"add_path", "add_path_ref"} => res = pre
           /\ op = "finalize" => is_failed(res)

\* C23 amended: a tree created from a failed Match does not absorb the
\* failure: add_path and add_path_ref invoke the branch function, once, as
\* long as no earlier branch has succeeded, and finalize() returns the
\* result of the first successful branch, a failure only when every branch
\* returned a failed result or none was registered.
C23_NoAbsorption ==
    is_failed(Previous)
        => /\ \A i \in 1..Len(hist) :
                hist[i].calls = IF \E j \in Successes : j < i THEN 0 ELSE 1
           /\ op = "finalize"
                => IF Successes # {} THEN res = hist[FirstSuccess].f ELSE is_failed(res)

C23_Witness ==
    /\ op = "finalize"
    /\ pre.ty = "MappedAlternativesMatch"
    /\ is_failed(pre.previous)
    /\ Len(hist) = 2
    /\ Successes = {2}
    /\ hist[1].calls = 1
    /\ hist[2].calls = 1
    /\ ~is_failed(res)

\* C24: discarding_ref(f) returns the Match that discarding(f) returns,
\* for every input and every f, and likewise for MappedMatch.
C24_DiscardingRef ==
    (op = "discarding_ref" /\ ~panicked)
        => res = IF pre.ty = "Match"
                 THEN Match_discarding(pre, args.f).m
                 ELSE MappedMatch_discarding(pre, args.f).m

\* C25 as stated: when f's result is a success, single appends the matched
\* piece held before the call (the last of the list), not the matched piece
\* of f's result, and takes f's rest; when f's result is failed the
\* CollectingMatch becomes failed() .
C25_AppendsPrevious ==
    (op = "single" /\ ~is_failed(pre))
        => IF is_failed(args.f)
           THEN res = CollectingMatch_failed
           ELSE res = CollectingMatch_new(
                          IF pre.matches # <<>>
                          THEN Append(pre.matches, pre.matches[Len(pre.matches)])
                          ELSE pre.matches,
                          args.f.rest)

\* C25 amended: single on a non-failed CollectingMatch calls f once; when
\* f's result is a success the piece appended is the matched part of that
\* result (nothing when it has none) and rest becomes its rest; when f's
\* result is failed the CollectingMatch becomes failed() .
C25_AppendsNew ==
    (op = "single" /\ ~is_failed(pre))
        => /\ calls = 1
           /\ IF is_failed(args.f)
              THEN res = CollectingMatch_failed
              ELSE res = CollectingMatch_new(
                             IF args.f.matched # None
                             THEN Append(pre.matches, args.f.matched[1])
                             ELSE pre.matches,
                             args.f.rest)

C25_Witness ==
    /\ op = "single"
    /\ ~is_failed(pre)
    /\ pre.matches = << <<>> >>
    /\ args.f.matched = Some(<<1>>)
    /\ res.matches = << <<>>, <<1>> >>

\* C26: on strings the min, max and n of the range matchers count
\* characters, also with multi-byte characters: a successful match_min_with,
\* match_min_max_with or match_exact_with has matched at least min
\* characters, a successful match_max_with, match_min_max_with or
\* match_exact_with at most max, so that match_exact_with matches exactly n.
C26_StrCountsChars ==
    (op \in RangeOps /\ kind = "str" /\ ~is_failed(pre) /\ ~panicked /\ ~is_failed(res))
        => LET c == ElemCount(kind, MatchedOrEmpty(res))
           IN  /\ op # "match_max_with" => c >= args.minimum
               /\ op # "match_min_with" => c <= args.maximum

\* C27: a MappedMatch carries a mapped value iff it carries a matched part,
\* in every state reached through map, the matchers, transform*, clear,
\* discarding and optional; map(value) on a success with a rest and no
\* matched part gives a success with the same rest and no mapped value, on a
\* success with a matched part it attaches the value, and on a failed result
\* it gives failure.
C27_MappedIffMatched ==
    /\ IsMapped => (mapped(res) # None <=> MappedMatch_matched(res) # None)
    /\ (op = "map" /\ ~is_failed(pre))
          => /\ res.rest = pre.rest
             /\ MappedMatch_matched(res) = pre.matched
             /\ mapped(res) = IF pre.matched = None THEN None ELSE Some(args.f)
    /\ (op = "map" /\ is_failed(pre)) => res = MappedMatch_failed

C27_Witness ==
    /\ op = "map"
    /\ pre.matched = None
    /\ pre.rest = Some(<<1>>)
    /\ res.rest = pre.rest
    /\ mapped(res) = None

\* the matched part of a result as a list: empty when absent
MatchedOrEmptyList(m) == IF m.matched = None THEN <<>> ELSE <<m.matched[1]>>

\* the matched parts of the results ms, the present ones, in order
RECURSIVE Pieces(_)
Pieces(ms) ==
    IF ms = <<>> THEN <<>>
    ELSE Pieces(Take(ms, Len(ms) - 1)) \o MatchedOrEmptyList(ms[Len(ms)])

\* C28: for a successful Match m and a chain
\* into_collecting(m).single(f1)...single(fk) in which every fi returns a
\* success, finalize() returns the list of m's matched part, if present,
\* followed by the matched parts of f1 .. fk, each present one once and in
\* order, together with the rest of fk, or of m when k = 0.
C28_CollectedList ==
    (op = "finalize" /\ hist # <<>> /\ \A i \in 1..Len(hist) : ~is_failed(hist[i]))
        => res = Ok(<<Pieces(hist), hist[Len(hist)].rest[1]>>)

C28_Witness ==
    /\ op = "finalize"
    /\ Len(hist) = 3
    /\ hist[1].matched = Some(<<1>>)
    /\ hist[2].matched = None
    /\ hist[3].matched = Some(<<>>)
    /\ hist[3].rest = Some(<<1>>)
    /\ res = Ok(<< << <<1>>, <<>> >>, <<1>> >>)

\* C29: repeat(count, f) invokes f exactly min(count, j) times, j the index
\* of the first application whose result is failed: never again after a
\* failed application and never on an already failed CollectingMatch; and
\* repeat(0, f) returns the CollectingMatch unchanged without invoking f.
C29_RepeatCalls ==
    op = "repeat"
        => LET count == args.minimum
               F == {k \in 1..count : is_failed(args.f[k])}
           IN  /\ ~panicked
               /\ calls = IF is_failed(pre) THEN 0
                          ELSE IF F = {} THEN count
                          ELSE CHOOSE j \in F : \A k \in F : j <= k
               /\ count = 0 => res = pre

\* the i-th invocation of the predicate is on the i-th element
InOrder == \A i \in 1..Len(log) : ElemCount(kind, Take(Arg, log[i])) = i - 1

\* C30: match_with invokes the predicate on the elements in index order,
\* once per element, on exactly the elements of the matched prefix and the
\* first rejected element; match_max_with invokes it at most max times,
\* in index order, never on the element at position max or later.
C30_MinimalScan ==
    /\ (op = "match_with" /\ ~is_failed(pre) /\ ~panicked)
          => /\ InOrder
             /\ Len(log) = Min(ElemCount(kind, MatchedOrEmpty(res)) + 1,
                               ElemCount(kind, Arg))
    /\ (op = "match_max_with" /\ ~is_failed(pre) /\ ~panicked)
          => /\ InOrder
             /\ Len(log) <= args.maximum
             /\ \A i \in 1..Len(log) : ElemCount(kind, Take(Arg, log[i])) < args.maximum

C30_Witness ==
    /\ Matched("match_max_with")
    /\ kind = "slice"
    /\ Len(Arg) = 3
    /\ args.maximum = 2
    /\ args.accept = SliceElem
    /\ log = <<0, 1>>

====
